---- MODULE Spec2Model ----
(***************************************************************************)
(* The live alert store of the web service: LiveAlerts (src/livealerts.py) *)
(* and its older twin AlertLogger (src/alerts.py), an SQLite table of      *)
(* alerts with a 24 hour window and a row limit, as it is written and read *)
(* by the service's handlers.                                              *)
(*                                                                         *)
(* Time is counted in ticks, TicksPerDay of them in 24 hours.  A timestamp *)
(* is stored as the text the caller supplied; SQLite compares that text    *)
(* with the text datetime('now', '-24 hours') yields.                      *)
(***************************************************************************)
EXTENDS Integers, Sequences, FiniteSets, TLC

VARIABLES
    alerts,     \* the rows of table alerts
    seq,        \* sqlite_sequence of the table: the largest id ever assigned
    now,        \* the clock datetime('now') reads, in ticks
    ret,        \* what the step just taken returned to its caller
    pend,       \* the count a caller holds from count_alerts while it goes on
                \* to call get_recent_alerts for the same filter
    issued,     \* the ids the table has assigned, in the order of the inserts
    pc,         \* for each caller that logs and then purges, how far it has come
    session,    \* the user the browser's session holds, if any
    config      \* the plugin list of PluginConfig (self.config)

vars == <<alerts, seq, now, ret, pend, issued, pc, session, config>>

----------------------------------------------------------------------------
\* Bounds of the model

\* ticks of the clock in 24 hours
TicksPerDay == 2
\* ticks the clock advances during a run
MaxTicks == 1
\* alerts inserted during a run
MaxSeq == 3
\* the limit purge_old_alerts is called with by default (10000 in the code)
DefaultLimit == 2
\* plugins the configuration holds at most during a run
MaxPlugins == 3

----------------------------------------------------------------------------
\* Values

\* Python's None, as an optional value: <<>> is None, <<k>> is k
None == <<>>

Some(k) == <<k>>

\* the clock when the service starts: late enough for an alert to be older
\* than the window
StartNow == TicksPerDay + 1

MaxNow == StartNow + MaxTicks

\* the text 'YYYY-MM-DD HH:MM:SS' of the point in time t, as the producers of
\* the repository write it (str(datetime.now())) and as SQLite's datetime()
\* writes it: the day, the separator (0 is the blank), the time of day
Format(t) == <<t \div TicksPerDay, 0, t % TicksPerDay>>

\* SQLite's comparison of two TEXT values (BINARY collation): a < b
TextLess(a, b) ==
    \E i \in 1..Len(a) :
        /\ i <= Len(b)
        /\ \A j \in 1..(i - 1) : a[j] = b[j]
        /\ a[i] < b[i]

\* datetime('now', '-24 hours')
Cutoff(t) == Format(t - TicksPerDay)

\* the fields of an alert besides its timestamp, as log_alert receives them
Payloads ==
    { [source |-> "web-interface", group |-> "service", category |-> "web",
       alert |-> "event", severity |-> "info", message |-> <<"o", "k">>],
      [source |-> "web-interface", group |-> "plugin", category |-> "web",
       alert |-> "error", severity |-> "error", message |-> <<"d", "f">>],
      [source |-> "plugin", group |-> "service", category |-> "webhook",
       alert |-> "event", severity |-> "error", message |-> <<"D", "f">>] }

\* the timestamps a caller supplies at time t: now, the oldest inside the
\* window, the newest outside it
TsInputs(t) == { Format(u) : u \in {t, t - TicksPerDay, t - TicksPerDay - 1} }

\* the columns of an exact-match filter
Facets == {"source", "group", "category", "alert", "severity"}

NoFilter ==
    [search |-> <<>>, source |-> "", group |-> "", category |-> "",
     alert |-> "", severity |-> ""]

\* every filter over the values in use: "" (or <<>>) is the absent filter
AllFilters ==
    [search : {<<>>, <<"d">>},
     source : {"", "plugin"},
     group : {"", "plugin"},
     category : {"", "webhook"},
     alert : {"", "error"},
     severity : {"", "error"}]

\* the filters the callers of the model pass to count_alerts
QFilters ==
    { NoFilter,
      [NoFilter EXCEPT !.severity = "error"],
      [NoFilter EXCEPT !.search = <<"d">>] }

\* the calls of get_recent_alerts the callers of the model make
QCalls ==
    { [offset |-> 0, limit |-> None, f |-> f] : f \in QFilters }
    \cup { [offset |-> 0, limit |-> None,
            f |-> [NoFilter EXCEPT !.source = "plugin", !.alert = "event"]],
           [offset |-> 0, limit |-> None, f |-> [NoFilter EXCEPT !.search = <<"_">>]],
           [offset |-> 1, limit |-> None, f |-> NoFilter],
           [offset |-> 0, limit |-> Some(1), f |-> NoFilter],
           [offset |-> 1, limit |-> Some(1), f |-> NoFilter],
           [offset |-> 3, limit |-> Some(2), f |-> NoFilter],
           [offset |-> 1, limit |-> Some(-1), f |-> NoFilter] }

PurgeLimits == {DefaultLimit, 1, -1}

----------------------------------------------------------------------------
\* SQL

\* ASCII lower case, as LIKE folds it
Lower(c) == IF c = "D" THEN "d" ELSE IF c = "O" THEN "o" ELSE c

\* message LIKE pattern: % matches any run of characters, _ any one character,
\* letters match without regard to case
RECURSIVE Like(_, _)
Like(s, p) ==
    IF p = <<>> THEN s = <<>>
    ELSE IF Head(p) = "%"
         THEN \/ Like(s, Tail(p))
              \/ s # <<>> /\ Like(Tail(s), p)
         ELSE /\ s # <<>>
              /\ \/ Head(p) = "_"
                 \/ Lower(Head(p)) = Lower(Head(s))
              /\ Like(Tail(s), Tail(p))

\* Fault: the filter clauses with the severity clause left out
FilterClausesNoSeverity(search, source, group, category, alert, severity) ==
    (IF search # <<>>
     THEN <<[col |-> "message", op |-> "LIKE", arg |-> <<"%">> \o search \o <<"%">>]>>
     ELSE <<>>)
    \o (IF source # "" THEN <<[col |-> "source", op |-> "=", arg |-> source]>> ELSE <<>>)
    \o (IF group # "" THEN <<[col |-> "group", op |-> "=", arg |-> group]>> ELSE <<>>)
    \o (IF category # "" THEN <<[col |-> "category", op |-> "=", arg |-> category]>> ELSE <<>>)
    \o (IF alert # "" THEN <<[col |-> "alert", op |-> "=", arg |-> alert]>> ELSE <<>>)

\* the WHERE clauses _build_alerts_query adds for the filter
FilterClauses(search, source, group, category, alert, severity) ==
    (IF search # <<>>
     THEN <<[col |-> "message", op |-> "LIKE", arg |-> <<"%">> \o search \o <<"%">>]>>
     ELSE <<>>)
    \o (IF source # "" THEN <<[col |-> "source", op |-> "=", arg |-> source]>> ELSE <<>>)
    \o (IF group # "" THEN <<[col |-> "group", op |-> "=", arg |-> group]>> ELSE <<>>)
    \o (IF category # "" THEN <<[col |-> "category", op |-> "=", arg |-> category]>> ELSE <<>>)
    \o (IF alert # "" THEN <<[col |-> "alert", op |-> "=", arg |-> alert]>> ELSE <<>>)
    \o (IF severity # "" THEN <<[col |-> "severity", op |-> "=", arg |-> severity]>> ELSE <<>>)

\* the base clause of both forms of the query
WindowClause == [col |-> "timestamp", op |-> ">=cutoff", arg |-> ""]

\* Fault: the query without the 24 hour clause
BuildAlertsQueryNoWindow(count, offset, limit, f) ==
    [count |-> count,
     where |-> FilterClauses(f.search, f.source, f.group, f.category,
                             f.alert, f.severity),
     ordered |-> ~count,
     paged |-> ~count /\ limit # None,
     limit |-> limit,
     offset |-> offset]

\* Fault: the COUNT(*) form without the filter clauses
BuildAlertsQueryCountUnfiltered(count, offset, limit, f) ==
    [count |-> count,
     where |-> IF count
               THEN <<WindowClause>>
               ELSE <<WindowClause>>
                    \o FilterClauses(f.search, f.source, f.group, f.category,
                                     f.alert, f.severity),
     ordered |-> ~count,
     paged |-> ~count /\ limit # None,
     limit |-> limit,
     offset |-> offset]

\* Fault: LIMIT -1 OFFSET ? added when no limit is given, so that the offset
\* applies without one
BuildAlertsQueryOffsetAlways(count, offset, limit, f) ==
    [count |-> count,
     where |-> <<WindowClause>>
               \o FilterClauses(f.search, f.source, f.group, f.category,
                                f.alert, f.severity),
     ordered |-> ~count,
     paged |-> ~count,
     limit |-> IF limit = None THEN Some(-1) ELSE limit,
     offset |-> offset]

\* the query and its bound parameters: count is the COUNT(*) form; ORDER BY is
\* added to the SELECT form, LIMIT ? OFFSET ? only when a limit is given
BuildAlertsQuery(count, offset, limit, f) ==
    [count |-> count,
     where |-> <<WindowClause>>
               \o FilterClauses(f.search, f.source, f.group, f.category,
                                f.alert, f.severity),
     ordered |-> ~count,
     paged |-> ~count /\ limit # None,
     limit |-> limit,
     offset |-> offset]

\* whether row r satisfies a clause at time t
Holds(cl, r, t) ==
    IF cl.op = ">=cutoff" THEN ~TextLess(r.timestamp, Cutoff(t))
    ELSE IF cl.op = "LIKE" THEN Like(r.message, cl.arg)
    ELSE r[cl.col] = cl.arg

\* the rows of S a query's WHERE selects at time t
Selected(q, S, t) ==
    { r \in S : \A i \in DOMAIN q.where : Holds(q.where[i], r, t) }

\* Fault: the SELECT without ORDER BY: the rows of S in any order
OrderByNothing(S) ==
    { s \in [1..Cardinality(S) -> S] : \A i, j \in DOMAIN s : i # j => s[i] # s[j] }

\* ORDER BY timestamp DESC: every order of the rows of S in which no row comes
\* before one with a greater timestamp; SQL leaves the order of rows with
\* equal timestamps open
OrderByTimestampDesc(S) ==
    { s \in [1..Cardinality(S) -> S] :
        /\ \A i, j \in DOMAIN s : i # j => s[i] # s[j]
        /\ \A i, j \in DOMAIN s : i < j => ~TextLess(s[i].timestamp, s[j].timestamp) }

\* Fault: OFFSET bound to one less than the offset passed
LimitOffsetOneLess(s, lim, off) ==
    LET o == IF off < 1 THEN 0 ELSE off - 1
        last == IF lim < 0 \/ o + lim > Len(s) THEN Len(s) ELSE o + lim
    IN  SubSeq(s, o + 1, last)

\* LIMIT lim OFFSET off: a negative limit is no limit, a negative offset is 0
LimitOffset(s, lim, off) ==
    LET o == IF off < 0 THEN 0 ELSE off
        last == IF lim < 0 \/ o + lim > Len(s) THEN Len(s) ELSE o + lim
    IN  SubSeq(s, o + 1, last)

\* the row tuple the SELECT returns: id is not among its columns
Columns(r) ==
    <<r.timestamp, r.source, r.group, r.category, r.alert, r.severity, r.message>>

\* the row sequences the SELECT form may fetch from S at time t
FetchAll(q, S, t) ==
    { IF q.paged THEN LimitOffset(s, q.limit[1], q.offset) ELSE s :
        s \in OrderByTimestampDesc(Selected(q, S, t)) }

\* the number the COUNT(*) form fetches
FetchCount(q, S, t) == Cardinality(Selected(q, S, t))

----------------------------------------------------------------------------
\* Retention

\* Fault: the age DELETE comparing the date alone (date('now', '-1 day'))
AgeSweepByDate(S, t) == { r \in S : r.timestamp[1] >= Cutoff(t)[1] }

\* Fault: the age DELETE with <= for <: it deletes the row at the cutoff too
AgeSweepAtCutoff(S, t) == { r \in S : TextLess(Cutoff(t), r.timestamp) }

\* DELETE FROM alerts WHERE timestamp < datetime('now', '-24 hours')
AgeSweep(S, t) == { r \in S : ~TextLess(r.timestamp, Cutoff(t)) }

\* Fault: the subquery ordered by timestamp ASC: it picks the oldest rows
NewestIdsAscending(S, limit) ==
    { { s[Len(s) + 1 - i].id : i \in DOMAIN LimitOffset(s, limit, 0) } :
        s \in OrderByTimestampDesc(S) }

\* SELECT id FROM alerts ORDER BY timestamp DESC LIMIT ?
NewestIds(S, limit) ==
    { { s[i].id : i \in DOMAIN LimitOffset(s, limit, 0) } : s \in OrderByTimestampDesc(S) }

\* Fault: the count DELETE with IN for NOT IN: it deletes the rows the
\* subquery picks
CountSweepIn(S, limit) ==
    { { r \in S : r.id \notin keep } : keep \in NewestIds(S, limit) }

\* Fault: the count DELETE keeping one row more than the limit
CountSweepOneMore(S, limit) ==
    { { r \in S : r.id \in keep } : keep \in NewestIds(S, limit + 1) }

\* DELETE FROM alerts WHERE id NOT IN (...): the stores it may leave
CountSweep(S, limit) ==
    { { r \in S : r.id \in keep } : keep \in NewestIds(S, limit) }

----------------------------------------------------------------------------
\* What a step returns

NoRet == [op |-> "none"]

NoPend == [open |-> FALSE]

\* the callers that log an alert and then purge, each in its own process
Workers == {"w1", "w2"}

\* a caller that is in neither call
Idle == [at |-> "idle"]

Init ==
    /\ alerts = {}
    /\ seq = 0
    /\ now = StartNow
    /\ ret = NoRet
    /\ pend = NoPend
    /\ issued = <<>>
    /\ pc = [w \in Workers |-> Idle]
    /\ session = None
    /\ config = <<>>

\* a write or the passing of time between count_alerts and get_recent_alerts
Disturbed == IF pend.open THEN [pend EXCEPT !.clean = FALSE] ELSE pend

\* Fault: the id of a table without AUTOINCREMENT, one more than the largest
\* rowid the table holds now
NextIdMaxRowid(S, q) ==
    IF S = {} THEN 1
    ELSE (CHOOSE i \in { r.id : r \in S } : \A r \in S : r.id <= i) + 1

\* id INTEGER PRIMARY KEY AUTOINCREMENT: one more than the largest id the
\* table has ever assigned, which sqlite_sequence (q) keeps
NextId(S, q) == q + 1

\* Fault: the column stamped by the database, as DEFAULT CURRENT_TIMESTAMP
StoredTimestampNow(ts, t) == Format(t)

\* the timestamp column of the INSERT is the argument of the call
StoredTimestamp(ts, t) == ts

\* log_alert: one INSERT
LogAlert(p, ts) ==
    /\ Len(issued) < MaxSeq
    /\ alerts' = alerts \cup
         { [id |-> NextId(alerts, seq), timestamp |-> StoredTimestamp(ts, now),
            source |-> p.source,
            group |-> p.group, category |-> p.category, alert |-> p.alert,
            severity |-> p.severity, message |-> p.message] }
    /\ seq' = NextId(alerts, seq)
    /\ issued' = Append(issued, NextId(alerts, seq))
    /\ ret' = [op |-> "log_alert", id |-> NextId(alerts, seq), timestamp |-> ts]
    /\ pend' = Disturbed
    /\ UNCHANGED <<now, pc, session, config>>

\* the step just taken was a log_alert that stored its row
AfterLog == ret.op = "log_alert" /\ "raised" \notin DOMAIN ret

\* Fault: purge_old_alerts without its count DELETE
PurgeOldAlertsAgeOnly(limit) ==
    /\ alerts' = AgeSweep(alerts, now)
    /\ ret' = [op |-> "purge_old_alerts", limit |-> limit,
               afterLog |-> AfterLog,
               afterPurge |-> (ret.op = "purge_old_alerts" /\ ret.limit = limit),
               before |-> alerts]
    /\ pend' = Disturbed
    /\ UNCHANGED <<seq, now, issued, pc, session, config>>

\* purge_old_alerts(limit): the age DELETE, then the count DELETE.  The step
\* records whether it follows a log_alert, whether it follows a
\* purge_old_alerts with the same limit, and the rows it found
PurgeOldAlerts(limit) ==
    /\ \E S \in CountSweep(AgeSweep(alerts, now), limit) : alerts' = S
    /\ ret' = [op |-> "purge_old_alerts", limit |-> limit,
               afterLog |-> AfterLog,
               afterPurge |-> (ret.op = "purge_old_alerts" /\ ret.limit = limit),
               before |-> alerts]
    /\ pend' = Disturbed
    /\ UNCHANGED <<seq, now, issued, pc, session, config>>

\* api_webhook of main.py: it calls log_alert(source=, type=, message=) of
\* AlertLogger, which has no parameter type and requires group, category,
\* alert, severity and timestamp: the call raises TypeError before any
\* statement of log_alert runs, and purge_old_alerts is not reached
ApiWebhook ==
    /\ ret' = [op |-> "api_webhook", raised |-> "TypeError"]
    /\ UNCHANGED <<alerts, seq, now, pend, issued, pc, session, config>>

\* Fault: a read that first deletes the rows older than the cutoff
GetRecentAlertsPurging(offset, limit, f) ==
    /\ alerts' = AgeSweep(alerts, now)
    /\ \E s \in FetchAll(BuildAlertsQuery(FALSE, offset, limit, f), alerts, now) :
         ret' = [op |-> "get_recent_alerts", offset |-> offset, limit |-> limit,
                 f |-> f,
                 rows |-> [i \in DOMAIN s |-> Columns(s[i])],
                 ids |-> [i \in DOMAIN s |-> s[i].id]]
    /\ UNCHANGED <<seq, now, pend, issued, pc, session, config>>

\* get_recent_alerts(offset, limit, search, source, group, category, alert,
\* severity): the rows fetched, and with each the id of the row it came from
GetRecentAlerts(offset, limit, f) ==
    /\ \E s \in FetchAll(BuildAlertsQuery(FALSE, offset, limit, f), alerts, now) :
         ret' = [op |-> "get_recent_alerts", offset |-> offset, limit |-> limit,
                 f |-> f,
                 rows |-> [i \in DOMAIN s |-> Columns(s[i])],
                 ids |-> [i \in DOMAIN s |-> s[i].id]]
    /\ UNCHANGED <<alerts, seq, now, pend, issued, pc, session, config>>

\* count_alerts(search, source, group, category, alert, severity)
CountAlerts(f) ==
    /\ ret' = [op |-> "count_alerts", f |-> f,
               n |-> FetchCount(BuildAlertsQuery(TRUE, 0, None, f), alerts, now)]
    /\ UNCHANGED <<alerts, seq, now, pend, issued, pc, session, config>>

\* a column value as a text that can be compared with a message: the texts of
\* the other columns are not spelled out in letters
Text(v) == <<v>>

\* the messages a caller tests: the message of a payload and the group of one
Tested == { <<"o", "k">>, Text("service") }

\* __contains__(message): any(alert[2] == message for alert in
\* self.get_recent_alerts()).  Python counts the columns of the row from 0:
\* alert[2] is the third column of the SELECT, "group"
Contains(message) ==
    /\ \E s \in FetchAll(BuildAlertsQuery(FALSE, 0, None, NoFilter), alerts, now) :
         ret' = [op |-> "__contains__", message |-> message,
                 result |-> \E i \in DOMAIN s : Text(Columns(s[i])[2 + 1]) = message]
    /\ UNCHANGED <<alerts, seq, now, pend, issued, pc, session, config>>

\* the clock advances
Tick ==
    /\ now < MaxNow
    /\ now' = now + 1
    /\ ret' = NoRet
    /\ pend' = Disturbed
    /\ UNCHANGED <<alerts, seq, issued, pc, session, config>>

Next ==
    \/ \E p \in Payloads, ts \in TsInputs(now) : LogAlert(p, ts)
    \/ \E limit \in PurgeLimits : PurgeOldAlerts(limit)
    \/ ApiWebhook
    \/ \E c \in QCalls : GetRecentAlerts(c.offset, c.limit, c.f)
    \/ \E f \in QFilters : CountAlerts(f)
    \/ \E message \in Tested : Contains(message)
    \/ Tick

Spec == Init /\ [][Next]_vars

----------------------------------------------------------------------------
\* A caller that counts and then fetches, while other callers write

\* the caller calls count_alerts(f) and keeps the number
PageCount(f) ==
    /\ ~pend.open
    /\ LET n == FetchCount(BuildAlertsQuery(TRUE, 0, None, f), alerts, now)
       IN  /\ ret' = [op |-> "count_alerts", f |-> f, n |-> n]
           /\ pend' = [open |-> TRUE, f |-> f, n |-> n, clean |-> TRUE]
    /\ UNCHANGED <<alerts, seq, now, issued, pc, session, config>>

\* the caller calls get_recent_alerts with the same filter and no limit
PageGet ==
    /\ pend.open
    /\ \E s \in FetchAll(BuildAlertsQuery(FALSE, 0, None, pend.f), alerts, now) :
         ret' = [op |-> "page", f |-> pend.f, n |-> pend.n, clean |-> pend.clean,
                 rows |-> [i \in DOMAIN s |-> Columns(s[i])]]
    /\ pend' = NoPend
    /\ UNCHANGED <<alerts, seq, now, issued, pc, session, config>>

NextPage ==
    \/ \E p \in Payloads, ts \in TsInputs(now) : LogAlert(p, ts)
    \/ PurgeOldAlerts(DefaultLimit)
    \/ \E f \in QFilters : PageCount(f)
    \/ PageGet
    \/ Tick

SpecPage == Init /\ [][NextPage]_vars

----------------------------------------------------------------------------
\* Calls as a caller may make them, and statements that fail

\* the parameters of log_alert, none of which has a default
Params ==
    {"timestamp", "source", "group", "category", "alert", "severity", "message"}

\* a timestamp argument that is no date: the text 'garbage', whose first
\* character sorts after every digit
Malformed == <<100>>

\* the keyword arguments of a call that passes all of them
FullArgs(p, ts) ==
    [timestamp |-> ts, source |-> p.source, group |-> p.group,
     category |-> p.category, alert |-> p.alert, severity |-> p.severity,
     message |-> p.message]

\* the keyword arguments a without the one named k
Without(a, k) == [x \in DOMAIN a \ {k} |-> a[x]]

\* one payload is enough for the calls below
OnePayload == CHOOSE p \in Payloads : p.severity = "info"

\* calls of log_alert: complete ones, with a timestamp that is a date or not,
\* and calls that leave one argument out
RawCalls(t) ==
    { FullArgs(OnePayload, ts) : ts \in TsInputs(t) \cup {Malformed} }
        \cup { Without(FullArgs(OnePayload, Format(t)), k) : k \in Params }

\* log_alert(**a): Python raises TypeError for a missing argument before the
\* body runs; the body inserts whatever it is given
LogAlertCall(a) ==
    \/ /\ DOMAIN a # Params
       /\ ret' = [op |-> "log_alert", raised |-> "TypeError"]
       /\ UNCHANGED <<alerts, seq, now, pend, issued, pc, session, config>>
    \/ /\ DOMAIN a = Params
       /\ LogAlert(a, a.timestamp)

\* purge_old_alerts(limit) when a DELETE raises sqlite3.OperationalError
\* (database is locked, disk I/O error): the with block of that DELETE rolls
\* back and the exception leaves purge_old_alerts, which has no try.  The age
\* DELETE has committed when the count DELETE is the one that fails
PurgeOldAlertsFails(limit, stage) ==
    /\ alerts' = IF stage = "count" THEN AgeSweep(alerts, now) ELSE alerts
    /\ ret' = [op |-> "purge_old_alerts", limit |-> limit,
               afterLog |-> AfterLog,
               afterPurge |-> FALSE,
               before |-> alerts,
               raised |-> "OperationalError"]
    /\ pend' = Disturbed
    /\ UNCHANGED <<seq, now, issued, pc, session, config>>

NextRaw ==
    \/ \E a \in RawCalls(now) : LogAlertCall(a)
    \/ PurgeOldAlerts(DefaultLimit)
    \/ \E stage \in {"age", "count"} : PurgeOldAlertsFails(DefaultLimit, stage)
    \/ GetRecentAlerts(0, None, NoFilter)
    \/ Tick

SpecRaw == Init /\ [][NextRaw]_vars

----------------------------------------------------------------------------
\* Callers in separate processes that call log_alert with all its arguments
\* and then purge_old_alerts, the order api_webhook has the two calls in.  Each
\* of the three statements opens its own connection and commits on its own;
\* no lock spans them

\* the INSERT of log_alert commits; log_alert returns to caller w
IngestLog(w, p, ts) ==
    /\ pc[w] = Idle
    /\ Len(issued) < MaxSeq
    /\ alerts' = alerts \cup
         { [id |-> NextId(alerts, seq), timestamp |-> StoredTimestamp(ts, now),
            source |-> p.source,
            group |-> p.group, category |-> p.category, alert |-> p.alert,
            severity |-> p.severity, message |-> p.message] }
    /\ seq' = NextId(alerts, seq)
    /\ issued' = Append(issued, NextId(alerts, seq))
    /\ pc' = [pc EXCEPT ![w] = [at |-> "logged", id |-> NextId(alerts, seq)]]
    /\ ret' = NoRet
    /\ pend' = Disturbed
    /\ UNCHANGED <<now, session, config>>

\* the age DELETE of purge_old_alerts commits
IngestAge(w) ==
    /\ pc[w].at = "logged"
    /\ alerts' = AgeSweep(alerts, now)
    /\ pc' = [pc EXCEPT ![w] = [at |-> "aged", id |-> pc[w].id]]
    /\ ret' = NoRet
    /\ pend' = Disturbed
    /\ UNCHANGED <<seq, now, issued, session, config>>

\* the count DELETE of purge_old_alerts commits, and caller w is done: its
\* ingest returns
IngestCount(w) ==
    /\ pc[w].at = "aged"
    /\ \E S \in CountSweep(alerts, DefaultLimit) : alerts' = S
    /\ pc' = [pc EXCEPT ![w] = Idle]
    /\ ret' = [op |-> "ingest", w |-> w, id |-> pc[w].id]
    /\ pend' = Disturbed
    /\ UNCHANGED <<seq, now, issued, session, config>>

NextConc ==
    \/ \E w \in Workers, ts \in TsInputs(now) : IngestLog(w, OnePayload, ts)
    \/ \E w \in Workers : IngestAge(w)
    \/ \E w \in Workers : IngestCount(w)
    \/ GetRecentAlerts(0, None, NoFilter)
    \/ CountAlerts(NoFilter)
    \/ Tick

SpecConc == Init /\ [][NextConc]_vars

----------------------------------------------------------------------------
\* The alerts view of web.py, which shows one page of alerts

\* the strings of the payloads in the order Python's < gives them
Ascending ==
    <<"error", "event", "plugin", "service", "web", "web-interface", "webhook">>

\* the place of string v in that order
Rank(v) == CHOOSE i \in DOMAIN Ascending : Ascending[i] = v

\* Fault: sorted(..., reverse=True)
SortedReverse(V) ==
    CHOOSE s \in [1..Cardinality(V) -> V] :
        \A i, j \in DOMAIN s : i < j => Rank(s[i]) > Rank(s[j])

\* sorted(V) of a set V of strings
Sorted(V) ==
    CHOOSE s \in [1..Cardinality(V) -> V] :
        \A i, j \in DOMAIN s : i < j => Rank(s[i]) < Rank(s[j])

\* sorted({event[k] for event in alerts}): Python counts the columns from 0
FacetList(page, k) == Sorted({ page[i][k + 1] : i \in DOMAIN page })

\* alerts(): the page is what the live alerts API answers, the rows of a
\* get_recent_alerts call, or the empty list when the API cannot be reached
AlertsView(c) ==
    /\ \E page \in FetchAll(BuildAlertsQuery(FALSE, c.offset, c.limit, c.f),
                             alerts, now) \cup {<<>>} :
         LET rows == [i \in DOMAIN page |-> Columns(page[i])]
         IN  ret' = [op |-> "alerts", alerts |-> rows,
                     source_list |-> FacetList(rows, 1),
                     group_list |-> FacetList(rows, 2),
                     category_list |-> FacetList(rows, 3),
                     alert_list |-> FacetList(rows, 4)]
    /\ UNCHANGED <<alerts, seq, now, pend, issued, pc, session, config>>

NextView ==
    \/ \E p \in Payloads, ts \in TsInputs(now) : LogAlert(p, ts)
    \/ PurgeOldAlerts(DefaultLimit)
    \/ \E c \in QCalls : AlertsView(c)
    \/ Tick

SpecView == Init /\ [][NextView]_vars

----------------------------------------------------------------------------
\* A caller that reads the store page by page

\* the page sizes the caller uses
PageSizes == {1, 2}

\* the filters the caller pages with
PageFilters == { NoFilter, [NoFilter EXCEPT !.severity = "error"] }

RECURSIVE PagesFrom(_, _, _, _, _)
\* the ids a caller may collect from get_recent_alerts(offset, K),
\* (offset + K, K), ... up to the number of matching rows: each call is a
\* query of its own
PagesFrom(offset, K, f, S, t) ==
    IF offset >= FetchCount(BuildAlertsQuery(TRUE, 0, None, f), S, t)
    THEN { <<>> }
    ELSE { [i \in DOMAIN s |-> s[i].id] \o rest :
             s \in FetchAll(BuildAlertsQuery(FALSE, offset, Some(K), f), S, t),
             rest \in PagesFrom(offset + K, K, f, S, t) }

\* the caller fetches every page of size K and, for the same store, the
\* result with limit unset
GetPages(K, f) ==
    /\ \E pages \in PagesFrom(0, K, f, alerts, now) :
       \E s \in FetchAll(BuildAlertsQuery(FALSE, 0, None, f), alerts, now) :
         ret' = [op |-> "get_pages", K |-> K, f |-> f, pages |-> pages,
                 all |-> [i \in DOMAIN s |-> s[i].id]]
    /\ pend' = NoPend
    /\ UNCHANGED <<alerts, seq, now, issued, pc, session, config>>

NextPager ==
    \/ \E p \in Payloads, ts \in TsInputs(now) : LogAlert(p, ts)
    \/ PurgeOldAlerts(DefaultLimit)
    \/ \E K \in PageSizes, f \in PageFilters : GetPages(K, f)

SpecPager == Init /\ [][NextPager]_vars

----------------------------------------------------------------------------
\* Sign-in: the decorator protected of web.py and of main.py

\* the token argument of a request: none (or the empty text), or a token that
\* the serializer accepts, finds older than max_age, or finds badly signed
Tokens ==
    { None,
      Some([kind |-> "valid", user |-> "admin"]),
      Some([kind |-> "expired", user |-> "admin"]),
      Some([kind |-> "forged", user |-> "admin"]) }

\* Fault: the serializer called without max_age, so that age is not checked
VerifyAuthTokenNoMaxAge(token) ==
    IF token.kind \in {"valid", "expired"} THEN Some(token.user) ELSE None

\* verify_auth_token: data['user'] when serializer.loads accepts the token,
\* None when it raises
VerifyAuthToken(token) ==
    IF token.kind = "valid" THEN Some(token.user) ELSE None

\* decorated_function of web.py: a valid token stores the user and answers
\* with a page that reloads the URL without the token
ProtectedWeb(token) ==
    /\ IF session = None /\ token # None
       THEN LET user == VerifyAuthToken(token[1])
            IN  IF user # None
                THEN /\ session' = user
                     /\ ret' = [op |-> "protected", module |-> "web",
                                token |-> token, had |-> FALSE,
                                response |-> "clean_url", ran |-> FALSE]
                ELSE /\ ret' = [op |-> "protected", module |-> "web",
                                token |-> token, had |-> FALSE,
                                response |-> "invalid_token", ran |-> FALSE]
                     /\ UNCHANGED session
       ELSE IF session = None
            THEN /\ ret' = [op |-> "protected", module |-> "web",
                            token |-> token, had |-> FALSE,
                            response |-> "redirect_auth", ran |-> FALSE]
                 /\ UNCHANGED session
            ELSE /\ ret' = [op |-> "protected", module |-> "web",
                            token |-> token, had |-> TRUE,
                            response |-> "handler", ran |-> TRUE]
                 /\ UNCHANGED session
    /\ UNCHANGED <<alerts, seq, now, pend, issued, pc, config>>

\* decorated_function of main.py: a valid token stores the user and the
\* handler runs in the same request
ProtectedMain(token) ==
    /\ IF session = None /\ token # None
       THEN LET user == VerifyAuthToken(token[1])
            IN  IF user # None
                THEN /\ session' = user
                     /\ ret' = [op |-> "protected", module |-> "main",
                                token |-> token, had |-> FALSE,
                                response |-> "handler", ran |-> TRUE]
                ELSE /\ ret' = [op |-> "protected", module |-> "main",
                                token |-> token, had |-> FALSE,
                                response |-> "invalid_token", ran |-> FALSE]
                     /\ UNCHANGED session
       ELSE IF session = None
            THEN /\ ret' = [op |-> "protected", module |-> "main",
                            token |-> token, had |-> FALSE,
                            response |-> "redirect_auth", ran |-> FALSE]
                 /\ UNCHANGED session
            ELSE /\ ret' = [op |-> "protected", module |-> "main",
                            token |-> token, had |-> TRUE,
                            response |-> "handler", ran |-> TRUE]
                 /\ UNCHANGED session
    /\ UNCHANGED <<alerts, seq, now, pend, issued, pc, config>>

\* the session ends: the filesystem session of flask_session is dropped or
\* the browser loses its cookie
SessionEnds ==
    /\ session # None
    /\ session' = None
    /\ ret' = NoRet
    /\ UNCHANGED <<alerts, seq, now, pend, issued, pc, config>>

----------------------------------------------------------------------------
\* The plugin list: PluginConfig of config.py

\* the texts ipaddress.ip_address accepts, among those used below
IsIpAddress(a) == a \in {"10.0.0.1", "::1"}

\* validate_ip_addresses: False when ip_address raises ValueError for one
ValidateIpAddresses(ip_addresses) ==
    \A i \in DOMAIN ip_addresses : IsIpAddress(ip_addresses[i])

\* the allowed-ip lists a caller sends
IpLists == { <<"10.0.0.1">>, <<"::1", "10.0.0.256">> }

PluginNames == {"a", "b"}

\* the dictionaries register and update_config are called with
RegisterArgs ==
    [name : PluginNames, description : {"d"}, allowed_ip : IpLists]

UpdateArgs ==
    [plugin_name : PluginNames, name : PluginNames, description : {"e"},
     allowed_ip : IpLists]

\* the index of the first entry of the list named n, 0 when there is none
FirstNamed(l, n) ==
    IF \E i \in DOMAIN l : l[i].name = n
    THEN CHOOSE i \in DOMAIN l :
            l[i].name = n /\ \A j \in 1..(i - 1) : l[j].name # n
    ELSE 0

\* the list l without its element at index i
RemoveAt(l, i) == SubSeq(l, 1, i - 1) \o SubSeq(l, i + 1, Len(l))

\* register(config): refuses a name that is in the list, then an invalid
\* address, and appends the new entry otherwise
Register(c) ==
    /\ Len(config) < MaxPlugins
    /\ IF FirstNamed(config, c.name) # 0
       THEN /\ ret' = [op |-> "register", result |-> FALSE, before |-> config]
            /\ UNCHANGED config
       ELSE IF ~ValidateIpAddresses(c.allowed_ip)
            THEN /\ ret' = [op |-> "register", result |-> FALSE, before |-> config]
                 /\ UNCHANGED config
            ELSE /\ config' = Append(config,
                                     [name |-> c.name, description |-> c.description,
                                      allowed_ip |-> c.allowed_ip])
                 /\ ret' = [op |-> "register", result |-> TRUE, before |-> config]
    /\ UNCHANGED <<alerts, seq, now, pend, issued, pc, session>>

\* update_config(new_config): the first entry named plugin_name is assigned
\* its new name, description and addresses in place; the addresses are
\* validated after that; no entry of that name returns False
UpdateConfig(nc) ==
    /\ LET i == FirstNamed(config, nc.plugin_name)
       IN  IF i # 0
           THEN /\ config' = [config EXCEPT ![i] =
                                 [name |-> nc.name, description |-> nc.description,
                                  allowed_ip |-> nc.allowed_ip]]
                /\ ret' = [op |-> "update_config",
                           result |-> ValidateIpAddresses(nc.allowed_ip),
                           before |-> config]
           ELSE /\ ret' = [op |-> "update_config", result |-> FALSE,
                           before |-> config]
                /\ UNCHANGED config
    /\ UNCHANGED <<alerts, seq, now, pend, issued, pc, session>>

\* delete(name): removes the first entry of that name
Delete(name) ==
    /\ LET i == FirstNamed(config, name)
       IN  IF i # 0
           THEN /\ config' = RemoveAt(config, i)
                /\ ret' = [op |-> "delete", result |-> TRUE, before |-> config]
           ELSE /\ ret' = [op |-> "delete", result |-> FALSE, before |-> config]
                /\ UNCHANGED config
    /\ UNCHANGED <<alerts, seq, now, pend, issued, pc, session>>

NextAdmin ==
    \/ \E token \in Tokens : ProtectedWeb(token)
    \/ \E token \in Tokens : ProtectedMain(token)
    \/ SessionEnds
    \/ \E c \in RegisterArgs : Register(c)
    \/ \E nc \in UpdateArgs : UpdateConfig(nc)
    \/ \E name \in PluginNames : Delete(name)

SpecAdmin == Init /\ [][NextAdmin]_vars

----------------------------------------------------------------------------
\* What is sure to happen.  The clock goes on; a call of log_alert,
\* purge_old_alerts or a read happens only when some caller makes it, and
\* purge_old_alerts has no caller but the webhook handler: no timer, thread or
\* scheduler in the code ever calls it

SpecLive == Init /\ [][Next]_vars /\ WF_vars(Tick)

----------------------------------------------------------------------------
\* Properties

\* the point in time a timestamp text names
TimeOf(ts) == ts[1] * TicksPerDay + ts[3]

\* the point in time of a row's timestamp is inside the 24 hours before t
InWindow(r, t) == TimeOf(r.timestamp) >= t - TicksPerDay

Min(a, b) == IF a < b THEN a ELSE b

Ids(S) == { r.id : r \in S }

\* the elements of a sequence
Range(s) == { s[i] : i \in DOMAIN s }

\* row r passes the exact-match facets of filter f: a facet left empty passes
\* every row
FacetsMatch(r, f) == \A c \in Facets : f[c] = "" \/ r[c] = f[c]

\* C1: when purge_old_alerts, called with the default limit as the webhook
\* handler calls it after log_alert, has returned, the store holds at most
\* that many alerts.
C1_AtMostMaxCount ==
    (ret.op = "purge_old_alerts" /\ ret.limit = DefaultLimit)
        => Cardinality(alerts) <= DefaultLimit

\* C1 witness: a purge that followed a log_alert found more in-window alerts
\* than the limit and left exactly the limit
C1_Witness ==
    /\ ret.op = "purge_old_alerts"
    /\ ret.limit = DefaultLimit
    /\ ret.afterLog
    /\ Cardinality({ r \in ret.before : InWindow(r, now) }) > DefaultLimit
    /\ Cardinality(alerts) = DefaultLimit

\* C2: get_recent_alerts returns no row, and count_alerts counts no row, whose
\* timestamp is older than 24 hours at the time of the query, whatever the
\* filter, offset and limit, also while such rows are still stored.
C2_NoExpiredRowRead ==
    /\ ret.op = "get_recent_alerts"
         => \A i \in DOMAIN ret.rows : TimeOf(ret.rows[i][1]) >= now - TicksPerDay
    /\ ret.op = "count_alerts"
         => ret.n <= Cardinality({ r \in alerts : InWindow(r, now) })
    /\ \A f \in { g \in AllFilters : g.search # <<>> } :
         /\ FetchCount(BuildAlertsQuery(TRUE, 0, None, f), alerts, now)
              <= Cardinality({ r \in alerts : InWindow(r, now) /\ FacetsMatch(r, f) })
         /\ \A s \in FetchAll(BuildAlertsQuery(FALSE, 0, None, f), alerts, now) :
              \A i \in DOMAIN s : InWindow(s[i], now)

\* C2 witness: a query returned rows while an expired row was still stored
C2_Witness ==
    /\ ret.op = "get_recent_alerts"
    /\ ret.rows # <<>>
    /\ \E r \in alerts : ~InWindow(r, now)

\* C3: in every result of get_recent_alerts the timestamps never increase
\* from one row to the next.
C3_TimestampsDescend ==
    ret.op = "get_recent_alerts"
        => \A i \in 1..(Len(ret.rows) - 1) :
             TimeOf(ret.rows[i][1]) >= TimeOf(ret.rows[i + 1][1])

\* C3 witness: a result of two rows with different timestamps
C3_Witness ==
    /\ ret.op = "get_recent_alerts"
    /\ Len(ret.rows) >= 2
    /\ TimeOf(ret.rows[1][1]) > TimeOf(ret.rows[2][1])

\* C4: in every result of get_recent_alerts, of two rows with equal
\* timestamps the one inserted later (the greater id) comes first.
C4_TiesByIdDescending ==
    ret.op = "get_recent_alerts"
        => \A i, j \in DOMAIN ret.rows :
             (i < j /\ ret.rows[i][1] = ret.rows[j][1]) => ret.ids[i] > ret.ids[j]

\* C5, as claimed: the number count_alerts returned equals the number of rows
\* get_recent_alerts returns afterwards for the same filter without a limit,
\* whatever other callers did in between.
C5_CountEqualsLenAlways ==
    ret.op = "page" => Len(ret.rows) = ret.n

\* C5, amended: the two numbers are equal when no insert, no purge and no
\* tick of the clock came between the two calls.
C5_CountEqualsLenUndisturbed ==
    (ret.op = "page" /\ ret.clean) => Len(ret.rows) = ret.n

\* C5 witness: an undisturbed pair of calls with a filter that selects some
\* of the stored rows, not all
C5_Witness ==
    /\ ret.op = "page"
    /\ ret.clean
    /\ ret.f # NoFilter
    /\ ret.n >= 1
    /\ ret.n < Cardinality(alerts)

\* the count of the rows a filter selects now, as count_alerts fetches it
CountNow(f) == FetchCount(BuildAlertsQuery(TRUE, 0, None, f), alerts, now)

C7_NoExpiredRowAfterPurge ==
    ret.op = "purge_old_alerts" => \A r \in alerts : InWindow(r, now)

\* C7 witness: a purge without a row limit found expired rows and removed them
C7_Witness ==
    /\ ret.op = "purge_old_alerts"
    /\ ret.limit < 0
    /\ \E r \in ret.before : ~InWindow(r, now)
    /\ alerts # {}

\* C8: with n alerts left by the age sweep, the count sweep leaves min(n,
\* limit) of them: all of them when n <= limit, exactly limit otherwise.
C8_CountSweepLeavesMin ==
    (ret.op = "purge_old_alerts" /\ ret.limit >= 0)
        => LET aged == { r \in ret.before : InWindow(r, now) }
           IN  /\ alerts \subseteq aged
               /\ Cardinality(alerts) = Min(Cardinality(aged), ret.limit)
               /\ Cardinality(aged) <= ret.limit => alerts = aged

\* C8 witness: the age sweep removed a row and left more than the limit, the
\* count sweep cut them to the limit
C8_Witness ==
    /\ ret.op = "purge_old_alerts"
    /\ ret.limit >= 0
    /\ Cardinality({ r \in ret.before : InWindow(r, now) }) > ret.limit
    /\ \E r \in ret.before : ~InWindow(r, now)
    /\ Cardinality(alerts) = ret.limit

\* C9: when the purge finds one alert more than the limit, all with the same
\* timestamp, it leaves exactly the limit and the alert it removes is the one
\* inserted first (the lowest id).
C9_TiedEvictionIsOldestInsert ==
    (/\ ret.op = "purge_old_alerts"
     /\ ret.limit = DefaultLimit
     /\ Cardinality(ret.before) = DefaultLimit + 1
     /\ \A r \in ret.before : InWindow(r, now)
     /\ \A r1, r2 \in ret.before : r1.timestamp = r2.timestamp)
        => /\ Cardinality(alerts) = DefaultLimit
           /\ \A gone \in ret.before \ alerts :
                \A r \in ret.before : gone.id <= r.id

\* C10: get_recent_alerts without a limit returns, each once, exactly the
\* stored in-window alerts that equal the filter in every facet that is not
\* empty; count_alerts counts the same alerts.
C10_FacetsSelectExactly ==
    /\ (ret.op = "get_recent_alerts" /\ ret.limit = None /\ ret.f.search = <<>>)
         => /\ Range(ret.ids)
                 = Ids({ r \in alerts : InWindow(r, now) /\ FacetsMatch(r, ret.f) })
            /\ \A i, j \in DOMAIN ret.ids : i # j => ret.ids[i] # ret.ids[j]
    /\ \A f \in { g \in AllFilters : g.search = <<>> } :
         LET want == { r \in alerts : InWindow(r, now) /\ FacetsMatch(r, f) }
         IN  /\ \A s \in FetchAll(BuildAlertsQuery(FALSE, 0, None, f), alerts, now) :
                  Range(s) = want /\ Len(s) = Cardinality(want)
             /\ CountNow(f) = Cardinality(want)

\* C10 witness: with an info alert and an error alert inside the window and
\* an error alert outside it, severity = "error" returned the one alert
C10_Witness ==
    /\ ret.op = "get_recent_alerts"
    /\ ret.limit = None
    /\ ret.f = [NoFilter EXCEPT !.severity = "error"]
    /\ Len(ret.rows) = 1
    /\ \E a, b, c \in alerts :
         /\ InWindow(a, now) /\ a.severity = "info"
         /\ ~InWindow(b, now) /\ b.severity = "error"
         /\ InWindow(c, now) /\ c.severity = "error" /\ ret.ids[1] = c.id

C12_IdsRiseNeverReused ==
    /\ \A i, j \in DOMAIN issued : i < j => issued[i] < issued[j]
    /\ \A r \in alerts : r.id >= 1 /\ r.id \in Range(issued)
    /\ \A r1, r2 \in alerts : r1.id = r2.id => r1 = r2
    /\ ret.op = "log_alert" => (ret.id >= 1 /\ ret.id = issued[Len(issued)])

\* C12 witness: an insert into a table whose rows with the largest ids have
\* been deleted got an id above the deleted ones
C12_Witness ==
    /\ ret.op = "log_alert"
    /\ \E i \in Range(issued) :
         /\ i < ret.id
         /\ i \notin Ids(alerts)
         /\ \A r \in alerts : r.id = ret.id \/ r.id < i

\* C13: when the webhook handler returns, it has raised nothing, the table
\* has assigned an id to its alert, and a whole purge has run: no stored alert
\* is older than the window and at most the default limit are stored.
C13_IngestAppendsThenSweeps ==
    ret.op = "api_webhook" =>
        /\ ret.raised = "none"
        /\ Len(issued) >= 1
        /\ \A r \in alerts : InWindow(r, now)
        /\ Cardinality(alerts) <= DefaultLimit

\* a timestamp text of the form the cutoff has: a date, a space, a time of day
Parses(ts) ==
    /\ Len(ts) = 3
    /\ ts[1] >= 0
    /\ ts[2] = 0
    /\ ts[3] \in 0..(TicksPerDay - 1)

\* C14: no stored alert has a timestamp that is no date, and a log_alert call
\* that returned without raising passed every argument and a timestamp that
\* is a date.
C14_InvalidEventRejected ==
    /\ \A r \in alerts : Parses(r.timestamp)
    /\ (ret.op = "log_alert" /\ "raised" \notin DOMAIN ret)
           => Parses(ret.timestamp)

\* C15: a purge_old_alerts that runs right after a log_alert, as the sweep of
\* that ingest, raises nothing to its caller, also when one of its DELETEs
\* fails.
C15_SweepFailureNotRaised ==
    (ret.op = "purge_old_alerts" /\ ret.afterLog) => "raised" \notin DOMAIN ret

\* C16: a read that runs while some caller is between its insert and the end
\* of its purge returns nothing that tells: it returns at most the default
\* limit of alerts, as it would with every purge complete.
C16_ReadsSeeWholeIngests ==
    ret.op = "get_recent_alerts" =>
        \/ \A w \in Workers : pc[w] = Idle
        \/ Len(ret.rows) <= DefaultLimit

\* C17: when an ingest returns, every ingest that has inserted its alert and
\* has not returned yet holds a greater id.
C17_IdOrderIsCompletionOrder ==
    ret.op = "ingest" =>
        \A v \in Workers : pc[v] # Idle => pc[v].id > ret.id

\* C18: a step that is a get_recent_alerts or a count_alerts leaves the stored
\* alerts, the id counter and the ids assigned so far as they were.
C18_QueriesNeverMutate ==
    [][ret'.op \in {"get_recent_alerts", "count_alerts"}
          => (alerts' = alerts /\ seq' = seq /\ issued' = issued)]_vars

\* C18 witness: a get_recent_alerts has run on a store that holds an alert
\* older than the window, did not return it, and the alert is still stored
C18_Witness ==
    /\ ret.op = "get_recent_alerts"
    /\ ret.rows # <<>>
    /\ \E r \in alerts : ~InWindow(r, now) /\ r.id \notin Range(ret.ids)

\* C19: a log_alert whose timestamp is already older than the cutoff stores
\* its row with that timestamp; no get_recent_alerts returns a stored row
\* older than the window and no count_alerts counts one; after the next
\* purge_old_alerts no such row is stored.
C19_ExpiredAtIngest ==
    /\ (ret.op = "log_alert" /\ TextLess(ret.timestamp, Cutoff(now)))
           => \E r \in alerts : r.id = ret.id /\ r.timestamp = ret.timestamp
    /\ ret.op = "get_recent_alerts"
           => \A r \in alerts : ~InWindow(r, now) => r.id \notin Range(ret.ids)
    /\ ret.op = "count_alerts"
           => ret.n <= Cardinality({ r \in alerts : InWindow(r, now) })
    /\ ret.op = "purge_old_alerts"
           => \A r \in alerts : InWindow(r, now)

\* C19 witness: a log_alert with a timestamp older than the cutoff has
\* returned and its row is stored with that timestamp
C19_Witness ==
    /\ ret.op = "log_alert"
    /\ TextLess(ret.timestamp, Cutoff(now))
    /\ \E r \in alerts :
         r.id = ret.id /\ r.timestamp = ret.timestamp /\ ~InWindow(r, now)

\* C20: whenever the store holds an alert older than the window, a time
\* comes at which it holds none, whether or not another alert is logged.
C20_ExpiredEventuallyEvicted ==
    (\E r \in alerts : ~InWindow(r, now)) ~> (\A r \in alerts : InWindow(r, now))

\* the text t occurs in the text s, letters taken without regard to case
HasSubstring(s, t) ==
    \E i \in 0..(Len(s) - Len(t)) :
        \A j \in 1..Len(t) : Lower(s[i + j]) = Lower(t[j])

\* C21: with a search term, get_recent_alerts without a limit returns exactly
\* the stored in-window alerts that pass the facets and whose message holds
\* the term as a substring, whatever characters the term is made of, and
\* count_alerts counts exactly those.
C21_SearchIsSubstring ==
    /\ (ret.op = "get_recent_alerts" /\ ret.limit = None /\ ret.f.search # <<>>)
         => Range(ret.ids)
              = Ids({ r \in alerts : /\ InWindow(r, now)
                                     /\ FacetsMatch(r, ret.f)
                                     /\ HasSubstring(r.message, ret.f.search) })
    /\ (ret.op = "count_alerts" /\ ret.f.search # <<>>)
         => ret.n
              = Cardinality({ r \in alerts : /\ InWindow(r, now)
                                             /\ FacetsMatch(r, ret.f)
                                             /\ HasSubstring(r.message, ret.f.search) })

\* row r passes filter f as the query applies it
Matches(r, f) ==
    /\ FacetsMatch(r, f)
    /\ f.search = <<>> \/ Like(r.message, <<"%">> \o f.search \o <<"%">>)

ValuesOf(page, k) == { page[i][k + 1] : i \in DOMAIN page }

\* list l holds exactly the strings of V, each once, in ascending order
IsSortedListOf(l, V) ==
    /\ Range(l) = V
    /\ \A i, j \in DOMAIN l : i < j => Rank(l[i]) < Rank(l[j])

\* C23: for the page the alerts view shows, each of source_list, group_list,
\* category_list and alert_list holds exactly the values of its column among
\* the rows of the page, each once, in ascending order.
C23_FacetListsOfPage ==
    ret.op = "alerts" =>
        /\ IsSortedListOf(ret.source_list, ValuesOf(ret.alerts, 1))
        /\ IsSortedListOf(ret.group_list, ValuesOf(ret.alerts, 2))
        /\ IsSortedListOf(ret.category_list, ValuesOf(ret.alerts, 3))
        /\ IsSortedListOf(ret.alert_list, ValuesOf(ret.alerts, 4))

\* C23 witness: a page of three alerts, two of which share their source, with
\* two sources in the list
C23_Witness ==
    /\ ret.op = "alerts"
    /\ Len(ret.alerts) = 3
    /\ Len(ret.source_list) = 2
    /\ Len(ret.alert_list) = 2

\* C24: the membership test returns True exactly when some stored in-window
\* alert has the tested text as its message.
C24_ContainsTestsMessage ==
    ret.op = "__contains__" =>
        (ret.result <=> \E r \in alerts : InWindow(r, now) /\ r.message = ret.message)

CountRemoved == AgeSweep(ret.before, now) \ alerts

\* C26: after purge_old_alerts, every row the count sweep left has a timestamp
\* greater than or equal to the timestamp of every row the count sweep removed.
C26_SurvivorsAreNewest ==
    ret.op = "purge_old_alerts" =>
        \A s \in alerts : \A r \in CountRemoved :
            ~TextLess(s.timestamp, r.timestamp)

\* C26 witness: the count sweep removed a row older than a row it left
C26_Witness ==
    /\ ret.op = "purge_old_alerts"
    /\ \E s \in alerts : \E r \in CountRemoved :
            TextLess(r.timestamp, s.timestamp)

C28_WindowMatchesAgeSweep ==
    (ret.op = "get_recent_alerts" /\ ret.f = NoFilter /\ ret.limit = None
        /\ ret.offset = 0) =>
        /\ Range(ret.ids) = Ids(AgeSweep(alerts, now))
        /\ \A r \in alerts :
               r.timestamp = Cutoff(now) =>
                   (r.id \in Range(ret.ids) /\ r \in AgeSweep(alerts, now))

\* C28 witness: the store holds a row at the cutoff and a row older than it;
\* the query returned the first and not the second
C28_Witness ==
    /\ ret.op = "get_recent_alerts"
    /\ ret.f = NoFilter
    /\ ret.limit = None
    /\ ret.offset = 0
    /\ \E r \in alerts : r.timestamp = Cutoff(now) /\ r.id \in Range(ret.ids)
    /\ \E r \in alerts : TextLess(r.timestamp, Cutoff(now)) /\ r.id \notin Range(ret.ids)

\* C29: no two plugins of the configuration have the same name, after any
\* calls of register, update_config and delete from the empty list.
C29_PluginNamesDistinct ==
    \A i, j \in DOMAIN config : i # j => config[i].name # config[j].name

\* C30: when register or update_config has returned False, the plugin list
\* in memory is the list the call found.
C30_FalseLeavesListUnchanged ==
    (ret.op \in {"register", "update_config"} /\ ~ret.result) =>
        config = ret.before

====
